---- MODULE Spec2Model ----
(***************************************************************************)
(* A model of the video annotation tool: the VideoPlayer class             *)
(* (video_player.py) with the cv2.VideoCapture decoder it drives, the      *)
(* AnnotationManager class (annotation_manager.py) with the files it       *)
(* writes, and the navigation and marking handlers of VideoAnnotationApp   *)
(* (video_annotation_gui.py).                                              *)
(*                                                                         *)
(* A frame image is the pair (video, index) it was decoded from, so that   *)
(* a stale or misplaced frame is visible.  fps is kept in tenths of a      *)
(* frame per second (fps10 = 25 is 2.5 fps), so that seconds * fps has a   *)
(* fractional part that int() truncates.                                   *)
(***************************************************************************)
EXTENDS Integers, Sequences, FiniteSets, TLC

\* ------------------------------------------------------------------ bounds
\* Frame count of the longest file of the player model.
MaxFrames == 3
\* Frame count of the long file of the navigation model (SpecNav).
NavFrames == 11
\* Width in pixels of the navigation bar widget.
ScaleWidth == 2
\* How many ids of scheduled calls are told apart.
MaxTimers == 3
\* How many lines the annotation files hold together before the saves stop.
MaxLines == 2

\* ------------------------------------------------------- program constants
keyframe_interval == 30

\* ------------------------------------------------------------- environment
\* The files a caller may try to open.  "missing.mp4" opens with no backend.
Files == {"a.mp4", "b.avi", "e.mp4", "missing.mp4"}

\* Two longer files, for the arithmetic of the skips.
LongFiles == {"long.mp4", "ten.mp4"}

\* CAP_PROP_FRAME_COUNT of a file.
FrameCount(f) ==
    CASE f = "a.mp4" -> MaxFrames
      [] f = "b.avi" -> MaxFrames - 1
      [] f = "long.mp4" -> NavFrames
      [] f = "ten.mp4" -> NavFrames - 1
      [] f = "note.mp4" -> 100
      [] OTHER -> 0

\* CAP_PROP_FPS of a file, in tenths of a frame per second.
Fps10(f) ==
    CASE f = "a.mp4" -> 25
      [] f = "b.avi" -> 10
      [] f = "long.mp4" -> 250
      [] f = "ten.mp4" -> 25
      [] f = "note.mp4" -> 250
      [] OTHER -> 0

\* The backend that opens a file: cv2.CAP_FFMPEG, only the default one, or none.
Backend(f) ==
    CASE f = "a.mp4" -> "ffmpeg"
      [] f = "e.mp4" -> "ffmpeg"
      [] f = "long.mp4" -> "ffmpeg"
      [] f = "ten.mp4" -> "ffmpeg"
      [] f = "note.mp4" -> "ffmpeg"
      [] f = "b.avi" -> "default"
      [] OTHER -> "none"

\* ----------------------------------------------------------------- helpers
Abs(x) == IF x < 0 THEN -x ELSE x
Min(a, b) == IF a < b THEN a ELSE b
Max(a, b) == IF a > b THEN a ELSE b

\* rounding down instead of toward zero
IntFloor(n, d) == n \div d

\* Python's int() of the quotient n / d (d > 0): truncation toward zero.
IntTrunc(n, d) == IF n >= 0 THEN n \div d ELSE -((-n) \div d)

\* F(x) with x bound to the value of v: a local variable of the code that
\* is assigned once and read many times.
With(v, F(_)) == CHOOSE r \in {F(x) : x \in {v}} : TRUE

\* Python's None for a frame, and a decoded frame image.
NoFrame == [video |-> "None", index |-> -1]
Image(v, i) == [video |-> v, index |-> i]

\* ------------------------------------------------------ cv2.VideoCapture
\* self.video_capture: None, or a capture object that is opened on a file at
\* a read position, or not opened (the open failed).
NoCapture == [kind |-> "None", video |-> "None", pos |-> 0]

\* cv2.VideoCapture(file_path, cv2.CAP_FFMPEG)
OpenFfmpeg(f) ==
    IF Backend(f) = "ffmpeg"
    THEN [kind |-> "opened", video |-> f, pos |-> 0]
    ELSE [kind |-> "unopened", video |-> "None", pos |-> 0]

\* cv2.VideoCapture(file_path)
OpenDefault(f) ==
    IF Backend(f) \in {"ffmpeg", "default"}
    THEN [kind |-> "opened", video |-> f, pos |-> 0]
    ELSE [kind |-> "unopened", video |-> "None", pos |-> 0]

\* video_capture.release(): how many open decoder handles it closes.
CapRelease(cap) == IF cap.kind = "opened" THEN 1 ELSE 0

\* How many decoder handles the construction of a capture object opened.
CapOpened(cap) == IF cap.kind = "opened" THEN 1 ELSE 0

\* video_capture.set(cv2.CAP_PROP_POS_FRAMES, n)
CapSeek(cap, n) ==
    IF cap.kind = "opened" THEN [cap EXCEPT !.pos = n] ELSE cap

\* video_capture.read(): the frame at the read position, which then advances.
\* The read fails on a capture that is not opened and past the last frame,
\* and it may fail anywhere else (a corrupt frame, a seek glitch): `decodes`
\* is whether the decoder manages this frame.
CapRead(cap, decodes) ==
    IF cap.kind = "opened" /\ cap.pos < FrameCount(cap.video) /\ decodes
    THEN [ret |-> TRUE, frame |-> Image(cap.video, cap.pos),
          cap |-> [cap EXCEPT !.pos = cap.pos + 1]]
    ELSE [ret |-> FALSE, frame |-> NoFrame, cap |-> cap]

\* ------------------------------------------------------------- VideoPlayer
VARIABLES
    video_capture,      \* the capture object, or NoCapture
    video_path,         \* the file of the last successful load, or "None"
    current_frame,
    total_frames,
    fps,                \* in tenths
    last_valid_frame,   \* the cached frame, or NoFrame
    last_read_position,
    last,               \* the latest call of the player and what it returned
    prev_get,           \* the latest get_frame call: where it was made
    open_handles,       \* how many decoder handles are open in the process
    after_release,      \* release() ran and no load_video has succeeded since
    \* VideoAnnotationApp and the Tk event loop
    is_playing,
    playback_id,        \* the id root.after returned, 0 for None
    timers,             \* the ids of the play_video calls Tk has scheduled
    is_nav_scale_drag,
    was_playing_before_nav,  \* "unset" until the first click sets it
    bound,              \* <B1-Motion> and <ButtonRelease-1> are bound
    closed,             \* the window is closed (cleanup ran)
    \* AnnotationManager, the entry widget and the file system
    start_timestamp,    \* the pending start in seconds, or NoTime
    annotation_history,
    annotation_dir,     \* the directory chosen for the annotations, or NoDir
    annotation_entry,   \* the text in the annotation entry widget
    files,              \* the annotation files that exist, with their lines
    saved               \* the latest call of the annotation code

player_vars == <<video_capture, video_path, current_frame, total_frames, fps,
                 last_valid_frame, last_read_position>>

\* The player object as a record of its fields.
Player ==
    [video_capture |-> video_capture, video_path |-> video_path,
     current_frame |-> current_frame, total_frames |-> total_frames,
     fps |-> fps, last_valid_frame |-> last_valid_frame,
     last_read_position |-> last_read_position]

SetPlayer(p) ==
    /\ video_capture' = p.video_capture
    /\ video_path' = p.video_path
    /\ current_frame' = p.current_frame
    /\ total_frames' = p.total_frames
    /\ fps' = p.fps
    /\ last_valid_frame' = p.last_valid_frame
    /\ last_read_position' = p.last_read_position

\* VideoPlayer.__init__
NewPlayer ==
    [video_capture |-> NoCapture, video_path |-> "None", current_frame |-> 0,
     total_frames |-> 0, fps |-> 0, last_valid_frame |-> NoFrame,
     last_read_position |-> -1]

\* What a call returns and which decoder calls it made: ok is the returned
\* success flag, delta the returned frame count, frame and used_cache the
\* rest of get_frame's tuple; path is the branch get_frame took, decoded
\* whether its decode gave a frame (ret and frame is not None), recovery
\* whether the keyframe recovery ran, reads and seeks count the calls of
\* video_capture.read() and video_capture.set(), released and opened the
\* decoder handles the call closed and opened.
NoCall ==
    [op |-> "init", arg |-> 0, file |-> "None", ok |-> FALSE, delta |-> 0,
     frame |-> NoFrame, used_cache |-> FALSE, path |-> "none",
     decoded |-> FALSE, recovery |-> FALSE, reads |-> 0, seeks |-> 0,
     released |-> 0, opened |-> 0]

\* No get_frame call yet.  at is current_frame at the call, video the file
\* loaded then, decoded whether the call decoded a frame, reloaded whether
\* load_video has succeeded since.
NoGet == [at |-> -1, video |-> "None", decoded |-> FALSE, reloaded |-> FALSE]

\* prev_get after a call with result r.
Observe(g, r) ==
    IF r.call.op = "get_frame"
    THEN [at |-> r.player.current_frame, video |-> r.player.video_path,
          decoded |-> r.call.decoded, reloaded |-> FALSE]
    ELSE IF r.call.op = "load_video" /\ r.call.ok
    THEN [g EXCEPT !.reloaded = TRUE]
    ELSE g

\* The open decoder handles after a call with result r.
Handles(n, r) == n - r.call.released + r.call.opened

\* after_release after a call with result r.
AfterRelease(b, r) ==
    IF r.call.op = "release" THEN TRUE
    ELSE IF r.call.op = "load_video" /\ r.call.ok THEN FALSE
    ELSE b

\* load_video that opens the new file without releasing the capture it holds
load_video_NoRelease(p, f) ==
    LET first == OpenFfmpeg(f)
        cap == IF first.kind # "opened" THEN OpenDefault(f) ELSE first
        opened == CapOpened(first)
                  + (IF first.kind # "opened" THEN CapOpened(cap) ELSE 0)
    IN  IF cap.kind # "opened"
        THEN [player |-> [p EXCEPT !.video_capture = cap],
              call |-> [NoCall EXCEPT !.op = "load_video", !.file = f,
                                      !.opened = opened]]
        ELSE [player |-> [video_capture |-> cap,
                          video_path |-> f,
                          current_frame |-> 0,
                          total_frames |-> FrameCount(f),
                          fps |-> Fps10(f),
                          last_valid_frame |-> NoFrame,
                          last_read_position |-> -1],
              call |-> [NoCall EXCEPT !.op = "load_video", !.file = f,
                                      !.ok = TRUE, !.opened = opened]]

\* load_video that keeps the cache of the video before
load_video_KeepsCache(p, f) ==
    LET released == IF p.video_capture.kind # "None"
                    THEN CapRelease(p.video_capture) ELSE 0
        first == OpenFfmpeg(f)
        cap == IF first.kind # "opened" THEN OpenDefault(f) ELSE first
        opened == CapOpened(first)
                  + (IF first.kind # "opened" THEN CapOpened(cap) ELSE 0)
    IN  IF cap.kind # "opened"
        THEN [player |-> [p EXCEPT !.video_capture = cap],
              call |-> [NoCall EXCEPT !.op = "load_video", !.file = f,
                                      !.released = released,
                                      !.opened = opened]]
        ELSE [player |-> [p EXCEPT !.video_capture = cap,
                                   !.video_path = f,
                                   !.current_frame = 0,
                                   !.total_frames = FrameCount(f),
                                   !.fps = Fps10(f)],
              call |-> [NoCall EXCEPT !.op = "load_video", !.file = f,
                                      !.ok = TRUE, !.released = released,
                                      !.opened = opened]]

\* VideoPlayer.load_video(file_path)
load_video(p, f) ==
    LET released == IF p.video_capture.kind # "None"
                    THEN CapRelease(p.video_capture) ELSE 0
        first == OpenFfmpeg(f)
        cap == IF first.kind # "opened" THEN OpenDefault(f) ELSE first
        opened == CapOpened(first)
                  + (IF first.kind # "opened" THEN CapOpened(cap) ELSE 0)
    IN  IF cap.kind # "opened"
        THEN [player |-> [p EXCEPT !.video_capture = cap],
              call |-> [NoCall EXCEPT !.op = "load_video", !.file = f,
                                      !.released = released,
                                      !.opened = opened]]
        ELSE [player |-> [video_capture |-> cap,
                          video_path |-> f,
                          current_frame |-> 0,
                          total_frames |-> FrameCount(f),
                          fps |-> Fps10(f),
                          last_valid_frame |-> NoFrame,
                          last_read_position |-> -1],
              call |-> [NoCall EXCEPT !.op = "load_video", !.file = f,
                                      !.ok = TRUE, !.released = released,
                                      !.opened = opened]]

\* The reads of the recovery loop, at most n: read i decodes when i <= j
\* (and the capture can give the frame), and the loop stops behind the first
\* read that fails. Every read before the last one made has decoded and
\* moved the read position on by one, so the last one reads stop - 1 frames
\* after the position the loop began at.
ReadForward(cap, n, j) ==
    LET Reads(i) == CapRead([cap EXCEPT !.pos = cap.pos + i - 1], j >= i)
        failed == {i \in 1 .. n : ~Reads(i).ret}
        stop == IF failed = {} THEN n
                ELSE CHOOSE i \in failed : \A m \in failed : i <= m
    IN  With(Reads(stop), LAMBDA r :
            [ret |-> r.ret, frame |-> r.frame, cap |-> r.cap,
             reads |-> stop])

\* _seek_and_read that gives up after the direct read
seek_and_read_NoRecovery(p, d, j) ==
    With(CapRead(CapSeek(p.video_capture, p.current_frame), d),
         LAMBDA direct :
         [ret |-> direct.ret, frame |-> direct.frame, cap |-> direct.cap,
          recovery |-> FALSE, reads |-> 1, seeks |-> 1])

\* _seek_and_read whose recovery run starts at the first frame of the video
seek_and_read_FromStart(p, d, j) ==
    LET seek_back == p.current_frame
        start_frame == p.current_frame - seek_back
    IN  With(CapRead(CapSeek(p.video_capture, p.current_frame), d),
             LAMBDA direct :
        IF direct.ret
        THEN [ret |-> TRUE, frame |-> direct.frame, cap |-> direct.cap,
              recovery |-> FALSE, reads |-> 1, seeks |-> 1]
        ELSE IF seek_back > 0
        THEN With(ReadForward(CapSeek(direct.cap, start_frame),
                              seek_back + 1, j),
                  LAMBDA run :
                  [ret |-> run.ret,
                   frame |-> IF run.ret THEN run.frame ELSE NoFrame,
                   cap |-> run.cap, recovery |-> TRUE,
                   reads |-> 1 + run.reads, seeks |-> 2])
        ELSE [ret |-> FALSE, frame |-> NoFrame, cap |-> direct.cap,
              recovery |-> FALSE, reads |-> 1, seeks |-> 1])

\* VideoPlayer._seek_and_read(): d is whether the read after the direct seek
\* decodes, j how many reads of the recovery run decode.
seek_and_read(p, d, j) ==
    LET seek_back == Min(p.current_frame, keyframe_interval)
        start_frame == p.current_frame - seek_back
    IN  With(CapRead(CapSeek(p.video_capture, p.current_frame), d),
             LAMBDA direct :
        IF direct.ret
        THEN [ret |-> TRUE, frame |-> direct.frame, cap |-> direct.cap,
              recovery |-> FALSE, reads |-> 1, seeks |-> 1]
        ELSE IF seek_back > 0
        THEN With(ReadForward(CapSeek(direct.cap, start_frame),
                              seek_back + 1, j),
                  LAMBDA run :
                  [ret |-> run.ret,
                   frame |-> IF run.ret THEN run.frame ELSE NoFrame,
                   cap |-> run.cap, recovery |-> TRUE,
                   reads |-> 1 + run.reads, seeks |-> 2])
        ELSE [ret |-> FALSE, frame |-> NoFrame, cap |-> direct.cap,
              recovery |-> FALSE, reads |-> 1, seeks |-> 1])

\* the test without the direction: a step back reads on, too
IsSequential_AnyNeighbour(p) ==
    Abs(p.current_frame - p.last_read_position) = 1

\* the test without the distance: any frame ahead is read on to
IsSequential_AnyForward(p) == p.current_frame > p.last_read_position

\* The test of get_frame for the plain sequential read.
IsSequential(p) ==
    /\ Abs(p.current_frame - p.last_read_position) = 1
    /\ p.current_frame > p.last_read_position

\* The decode of get_frame: the sequential read or _seek_and_read.
Decode(p, d, j) ==
    IF IsSequential(p)
    THEN With(CapRead(p.video_capture, d), LAMBDA r :
             [ret |-> r.ret, frame |-> r.frame, cap |-> r.cap,
              recovery |-> FALSE, reads |-> 1, seeks |-> 0,
              path |-> "sequential"])
    ELSE With(seek_and_read(p, d, j), LAMBDA r :
             [ret |-> r.ret, frame |-> r.frame, cap |-> r.cap,
              recovery |-> r.recovery, reads |-> r.reads, seeks |-> r.seeks,
              path |-> "seek"])

\* get_frame that serves the cache without flagging it
Deliver_CacheUnflagged(p, r) ==
    LET q == [p EXCEPT !.video_capture = r.cap]
        c == [NoCall EXCEPT !.op = "get_frame", !.path = r.path,
                            !.recovery = r.recovery, !.reads = r.reads,
                            !.seeks = r.seeks]
    IN  IF ~r.ret \/ r.frame = NoFrame
        THEN IF p.last_valid_frame # NoFrame
             THEN [player |-> q,
                   call |-> [c EXCEPT !.ok = TRUE,
                                      !.frame = p.last_valid_frame]]
             ELSE [player |-> q, call |-> c]
        ELSE [player |-> [q EXCEPT !.last_valid_frame = r.frame,
                                   !.last_read_position = p.current_frame],
              call |-> [c EXCEPT !.ok = TRUE, !.frame = r.frame,
                                 !.decoded = TRUE]]

\* get_frame that fails whenever the decode fails, cache or not
Deliver_NoFallback(p, r) ==
    LET q == [p EXCEPT !.video_capture = r.cap]
        c == [NoCall EXCEPT !.op = "get_frame", !.path = r.path,
                            !.recovery = r.recovery, !.reads = r.reads,
                            !.seeks = r.seeks]
    IN  IF ~r.ret \/ r.frame = NoFrame
        THEN [player |-> q, call |-> c]
        ELSE [player |-> [q EXCEPT !.last_valid_frame = r.frame,
                                   !.last_read_position = p.current_frame],
              call |-> [c EXCEPT !.ok = TRUE, !.frame = r.frame,
                                 !.decoded = TRUE]]

\* What get_frame does with the decode's result r.
Deliver(p, r) ==
    LET q == [p EXCEPT !.video_capture = r.cap]
        c == [NoCall EXCEPT !.op = "get_frame", !.path = r.path,
                            !.recovery = r.recovery, !.reads = r.reads,
                            !.seeks = r.seeks]
    IN  IF ~r.ret \/ r.frame = NoFrame
        THEN IF p.last_valid_frame # NoFrame
             THEN [player |-> q,
                   call |-> [c EXCEPT !.ok = TRUE,
                                      !.frame = p.last_valid_frame,
                                      !.used_cache = TRUE]]
             ELSE [player |-> q, call |-> c]
        ELSE [player |-> [q EXCEPT !.last_valid_frame = r.frame,
                                   !.last_read_position = p.current_frame],
              call |-> [c EXCEPT !.ok = TRUE, !.frame = r.frame,
                                 !.decoded = TRUE]]

\* VideoPlayer.get_frame()
get_frame(p, d, j) ==
    IF p.video_capture.kind = "None"
    THEN [player |-> p, call |-> [NoCall EXCEPT !.op = "get_frame"]]
    ELSE With(p, LAMBDA self :
             With(Decode(self, d, j), LAMBDA r : Deliver(self, r)))

\* next_frame that may step past the last frame
next_frame_OffByOne(p) ==
    IF p.current_frame < p.total_frames
    THEN [player |-> [p EXCEPT !.current_frame = p.current_frame + 1],
          call |-> [NoCall EXCEPT !.op = "next_frame", !.ok = TRUE]]
    ELSE [player |-> p, call |-> [NoCall EXCEPT !.op = "next_frame"]]

\* VideoPlayer.next_frame()
next_frame(p) ==
    IF p.current_frame < p.total_frames - 1
    THEN [player |-> [p EXCEPT !.current_frame = p.current_frame + 1],
          call |-> [NoCall EXCEPT !.op = "next_frame", !.ok = TRUE]]
    ELSE [player |-> p, call |-> [NoCall EXCEPT !.op = "next_frame"]]

\* VideoPlayer.previous_frame()
previous_frame(p) ==
    IF p.current_frame > 0
    THEN [player |-> [p EXCEPT !.current_frame = p.current_frame - 1],
          call |-> [NoCall EXCEPT !.op = "previous_frame", !.ok = TRUE]]
    ELSE [player |-> p, call |-> [NoCall EXCEPT !.op = "previous_frame"]]

\* skip_frames without the clamp
skip_frames_unclamped(p, frame_count) ==
    [player |-> [p EXCEPT !.current_frame = p.current_frame + frame_count],
     call |-> [NoCall EXCEPT !.op = "skip_frames", !.arg = frame_count,
                             !.delta = frame_count]]

\* skip_frames that returns the count it was asked for
skip_frames_ReturnsRequested(p, frame_count) ==
    LET new_frame == Max(0, Min(p.current_frame + frame_count,
                                p.total_frames - 1))
    IN  [player |-> [p EXCEPT !.current_frame = new_frame],
         call |-> [NoCall EXCEPT !.op = "skip_frames", !.arg = frame_count,
                                 !.delta = frame_count]]

\* VideoPlayer.skip_frames(frame_count)
skip_frames(p, frame_count) ==
    LET new_frame == Max(0, Min(p.current_frame + frame_count,
                                p.total_frames - 1))
    IN  [player |-> [p EXCEPT !.current_frame = new_frame],
         call |-> [NoCall EXCEPT !.op = "skip_frames", !.arg = frame_count,
                                 !.delta = new_frame - p.current_frame]]

\* frames_to_skip of skip_time: int(seconds * self.fps)
FramesToSkip(p, seconds) == IntTrunc(seconds * p.fps, 10)

\* VideoPlayer.skip_time(seconds)
skip_time(p, seconds) ==
    LET r == skip_frames(p, FramesToSkip(p, seconds))
    IN  [player |-> r.player,
         call |-> [r.call EXCEPT !.op = "skip_time", !.arg = seconds]]

\* VideoPlayer.is_loaded()
is_loaded(p) == p.video_capture.kind # "None"

\* release that drops the cached frame with the capture
release_ClearsCache(p) ==
    [player |-> [p EXCEPT !.video_capture = NoCapture,
                          !.last_valid_frame = NoFrame,
                          !.last_read_position = -1],
     call |-> [NoCall EXCEPT !.op = "release",
                             !.released = CapRelease(p.video_capture)]]

\* VideoPlayer.release()
release(p) ==
    IF p.video_capture.kind # "None"
    THEN [player |-> [p EXCEPT !.video_capture = NoCapture],
          call |-> [NoCall EXCEPT !.op = "release",
                                  !.released = CapRelease(p.video_capture)]]
    ELSE [player |-> p, call |-> [NoCall EXCEPT !.op = "release"]]

\* ------------------------------------------------------ paths and labels
\* A path is spelled as a sequence of tokens, "/" being the separator:
\* <<"/", "u", "2", "/", "b", ".avi">> is /u2/b.avi.
PathTokens(f) ==
    CASE f = "a.mp4" -> <<"/", "u", "/", "a", ".mp4">>
      [] f = "b.avi" -> <<"/", "u", "2", "/", "b", ".avi">>
      [] f = "e.mp4" -> <<"/", "v", "/", "e", ".mp4">>
      [] f = "long.mp4" -> <<"/", "u", "/", "w", "/", "long", ".mp4">>
      [] f = "ten.mp4" -> <<"/", "ten", ".mp4">>
      [] f = "missing.mp4" -> <<"/", "u", "/", "missing", ".mp4">>
      [] f = "note.mp4" -> <<"/", "u", "/", "note", ".mp4">>
      [] OTHER -> <<>>

\* os.path.expanduser("~")
home_dir == <<"/", "u">>

\* The index of the last "/" of a path, 0 if it has none.
RECURSIVE LastSep(_, _)
LastSep(t, i) ==
    IF i = 0 THEN 0 ELSE IF t[i] = "/" THEN i ELSE LastSep(t, i - 1)

\* os.path.dirname: the part before the last separator (the root stays).
Dirname(t) ==
    LET k == LastSep(t, Len(t))
    IN  IF k = 0 THEN <<>> ELSE IF k = 1 THEN <<"/">> ELSE SubSeq(t, 1, k - 1)

\* os.path.basename
Basename(t) == SubSeq(t, LastSep(t, Len(t)) + 1, Len(t))

\* os.path.splitext(...)[0]: the name without its extension, which is its
\* last token when that begins with a dot and is not the whole name.
IsExtension(tok) == tok \in {".mp4", ".avi"}
Stem(t) ==
    IF Len(t) > 1 /\ IsExtension(t[Len(t)]) THEN SubSeq(t, 1, Len(t) - 1)
    ELSE t

\* str.startswith
StartsWith(t, prefix) ==
    Len(t) >= Len(prefix) /\ SubSeq(t, 1, Len(prefix)) = prefix

\* The components of an absolute path: the token runs between separators.
RECURSIVE Components(_)
Components(t) ==
    IF t = <<>> THEN <<>>
    ELSE IF t[1] = "/" THEN Components(Tail(t))
    ELSE LET k == CHOOSE i \in 1 .. Len(t) :
                      /\ \A m \in 1 .. i : t[m] # "/"
                      /\ i = Len(t) \/ t[i + 1] = "/"
         IN  <<SubSeq(t, 1, k)>> \o Components(SubSeq(t, k + 1, Len(t)))

\* How many leading components two component lists share.
RECURSIVE CommonPrefix(_, _)
CommonPrefix(a, b) ==
    IF a = <<>> \/ b = <<>> \/ a[1] # b[1] THEN 0
    ELSE 1 + CommonPrefix(Tail(a), Tail(b))

\* The components joined by separators into one relative path.
RECURSIVE JoinComponents(_)
JoinComponents(c) ==
    IF c = <<>> THEN <<>>
    ELSE IF Len(c) = 1 THEN c[1]
    ELSE c[1] \o <<"/">> \o JoinComponents(Tail(c))

\* os.path.relpath(path, start) of two absolute paths
Relpath(path, start) ==
    LET pc == Components(path)
        sc == Components(start)
        i == CommonPrefix(pc, sc)
        ups == [k \in 1 .. (Len(sc) - i) |-> <<"..">>]
        rel == ups \o SubSeq(pc, i + 1, Len(pc))
    IN  IF rel = <<>> THEN <<".">> ELSE JoinComponents(rel)

\* video_path_str of save_annotation: the path written into the line
DisplayPath(file_path) ==
    LET abs_video_path == PathTokens(file_path)
    IN  IF StartsWith(abs_video_path, home_dir)
        THEN Relpath(abs_video_path, home_dir)
        ELSE abs_video_path

\* n / d rounded to the nearest integer, halves to the even one.
RoundHalfEven(n, d) ==
    LET q == n \div d
        r == n % d
    IN  IF 2 * r < d THEN q
        ELSE IF 2 * r > d THEN q + 1
        ELSE IF q % 2 = 0 THEN q ELSE q + 1

\* A time in seconds is the fraction n / d; NoTime is Python's None.
NoTime == [n |-> -1, d |-> 1]
Seconds(n, d) == [n |-> n, d |-> d]
TimeLess(a, b) == a.n * b.d < b.n * a.d

\* VideoPlayer.get_current_timestamp(): current_frame / fps, fps in tenths
get_current_timestamp(p) ==
    IF p.fps > 0 THEN Seconds(p.current_frame * 10, p.fps) ELSE Seconds(0, 1)

\* VideoPlayer.format_timestamp(seconds): the fields of HH:MM:SS.mmm, the
\* seconds field in thousandths. timedelta(seconds=seconds) keeps whole
\* microseconds, a half going to the even one (microseconds below); the
\* fields are taken from td.total_seconds(), and "06.3f" prints the
\* remainder below 60 to the nearest thousandth. A remainder that is
\* exactly halfway is printed from its binary value: to the even
\* thousandth when the value is a binary fraction, as the halfway values
\* of FormatTimes are.
format_timestamp(t) ==
    LET whole == t.n \div t.d
        thousandths == (t.n % t.d) * 1000
        microseconds == (thousandths \div t.d) * 1000
                        + RoundHalfEven((thousandths % t.d) * 1000, t.d)
        total_seconds == whole + microseconds \div 1000000
    IN  [hours |-> total_seconds \div 3600,
         minutes |-> (total_seconds % 3600) \div 60,
         millis |-> (total_seconds % 60) * 1000
                    + RoundHalfEven(microseconds % 1000000, 1000)]

\* ------------------------------------------------------- AnnotationManager
\* A text is a sequence of characters.  str.strip() drops the blanks at
\* both ends.
RECURSIVE LStrip(_)
LStrip(t) == IF t # <<>> /\ t[1] = " " THEN LStrip(Tail(t)) ELSE t

RECURSIVE RStrip(_)
RStrip(t) ==
    IF t # <<>> /\ t[Len(t)] = " " THEN RStrip(SubSeq(t, 1, Len(t) - 1))
    ELSE t

Strip(t) == RStrip(LStrip(t))

\* annotation_dir = None; save_annotation treats "" the same way.
NoDir == <<>>

\* No label: the label argument of a call that has none.
NoLabel == [hours |-> -1, minutes |-> 0, millis |-> 0]

\* A line of an annotation file; complete is whether the whole line, the
\* newline included, is in the file.
Line(path, start, end, text) ==
    [path |-> path, start |-> start, end |-> end, text |-> text,
     complete |-> TRUE]

\* The beginning of a line whose write failed part way.
PartialLine ==
    [path |-> <<>>, start |-> NoLabel, end |-> NoLabel, text |-> <<>>,
     complete |-> FALSE]

\* The manager object as a record of its fields.
Mgr ==
    [start_timestamp |-> start_timestamp,
     annotation_history |-> annotation_history,
     annotation_dir |-> annotation_dir]

\* What a call of the annotation code returned and did: ok, file and error
\* are save_annotation's tuple, io whether a file was opened, warning the
\* message box of a rejected mark; the rest are the arguments it saved.
NoSave ==
    [op |-> "init", ok |-> FALSE, file |-> <<>>, error |-> "None",
     io |-> FALSE, warning |-> "None", video_path |-> "None",
     start |-> NoLabel, end |-> NoLabel, text |-> <<>>]

\* AnnotationManager.set_start(timestamp)
set_start(m, timestamp) == [m EXCEPT !.start_timestamp = timestamp]

\* AnnotationManager.clear_start()
clear_start(m) == [m EXCEPT !.start_timestamp = NoTime]

\* AnnotationManager.has_start()
has_start(m) == m.start_timestamp # NoTime

\* AnnotationManager.get_start()
get_start(m) == m.start_timestamp

\* add_to_history that appends every non-empty text, seen before or not
add_to_history_NoDedup(m, annotation) ==
    IF annotation # <<>>
    THEN [m EXCEPT !.annotation_history = Append(@, annotation)]
    ELSE m

\* AnnotationManager.add_to_history(annotation)
add_to_history(m, annotation) ==
    IF annotation # <<>>
       /\ \A i \in 1 .. Len(m.annotation_history) :
              m.annotation_history[i] # annotation
    THEN [m EXCEPT !.annotation_history = Append(@, annotation)]
    ELSE m

\* AnnotationManager.set_directory(directory)
set_directory(m, directory) == [m EXCEPT !.annotation_dir = directory]

\* os.path.join(directory, name)
Join(directory, name) ==
    IF directory = <<>> THEN name
    ELSE IF directory[Len(directory)] = "/" THEN directory \o name
    ELSE directory \o <<"/">> \o name

\* The lines of a file, none if it does not exist.
Content(fs, file) == IF file \in DOMAIN fs THEN fs[file] ELSE <<>>

\* The file system after the file is (created and) given the lines c.
WriteFile(fs, file, c) ==
    [x \in DOMAIN fs \cup {file} |-> IF x = file THEN c ELSE fs[x]]

\* What the file system does with open(annotation_file, 'a') and the write
\* of the line: cause is the exception raised ("None": none), at_open
\* whether open() raised it, partial whether a write that failed had
\* already put the beginning of the line into the file.
WriteOutcomes ==
    {[cause |-> "None", at_open |-> FALSE, partial |-> FALSE],
     [cause |-> "PermissionError", at_open |-> TRUE, partial |-> FALSE],
     [cause |-> "No space left on device", at_open |-> FALSE,
      partial |-> FALSE],
     [cause |-> "No space left on device", at_open |-> FALSE,
      partial |-> TRUE]}

\* save_annotation that writes whatever the video path is
save_annotation_NoPathCheck(m, fs, file_path, start_time_str, end_time_str, annotation_text, w) ==
    LET c == [NoSave EXCEPT !.op = "save_annotation",
                            !.video_path = file_path,
                            !.start = start_time_str, !.end = end_time_str,
                            !.text = annotation_text]
        tokens == PathTokens(file_path)
        annot_dir == IF m.annotation_dir # <<>> THEN m.annotation_dir
                     ELSE Dirname(tokens)
        video_name == Stem(Basename(tokens))
        annotation_file == Join(annot_dir,
                                video_name \o <<"_annotations.txt">>)
        line == Line(DisplayPath(file_path), start_time_str, end_time_str,
                     annotation_text)
        old == Content(fs, annotation_file)
    IN  IF w.cause = "None"
        THEN [files |-> WriteFile(fs, annotation_file, Append(old, line)),
              call |-> [c EXCEPT !.ok = TRUE, !.file = annotation_file,
                                 !.io = TRUE]]
        ELSE IF w.at_open
        THEN [files |-> fs, call |-> [c EXCEPT !.error = w.cause,
                                               !.io = TRUE]]
        ELSE [files |-> WriteFile(fs, annotation_file,
                            IF w.partial THEN Append(old, PartialLine)
                            ELSE old),
              call |-> [c EXCEPT !.error = w.cause, !.io = TRUE]]

\* save_annotation that opens the file for writing, not for appending
save_annotation_Truncates(m, fs, file_path, start_time_str, end_time_str, annotation_text, w) ==
    LET c == [NoSave EXCEPT !.op = "save_annotation",
                            !.video_path = file_path,
                            !.start = start_time_str, !.end = end_time_str,
                            !.text = annotation_text]
        tokens == PathTokens(file_path)
        annot_dir == IF m.annotation_dir # <<>> THEN m.annotation_dir
                     ELSE Dirname(tokens)
        video_name == Stem(Basename(tokens))
        annotation_file == Join(annot_dir,
                                video_name \o <<"_annotations.txt">>)
        line == Line(DisplayPath(file_path), start_time_str, end_time_str,
                     annotation_text)
    IN  IF file_path \in {"", "None"}
        THEN [files |-> fs, call |-> [c EXCEPT !.error = "No video loaded"]]
        ELSE IF w.cause = "None"
        THEN [files |-> WriteFile(fs, annotation_file, <<line>>),
              call |-> [c EXCEPT !.ok = TRUE, !.file = annotation_file,
                                 !.io = TRUE]]
        ELSE IF w.at_open
        THEN [files |-> fs, call |-> [c EXCEPT !.error = w.cause,
                                               !.io = TRUE]]
        ELSE [files |-> WriteFile(fs, annotation_file,
                            IF w.partial THEN <<PartialLine>> ELSE <<>>),
              call |-> [c EXCEPT !.error = w.cause, !.io = TRUE]]

\* AnnotationManager.save_annotation(video_path, start_time_str,
\* end_time_str, annotation_text), with the file system's answer w
save_annotation(m, fs, file_path, start_time_str, end_time_str, annotation_text, w) ==
    LET c == [NoSave EXCEPT !.op = "save_annotation",
                            !.video_path = file_path,
                            !.start = start_time_str, !.end = end_time_str,
                            !.text = annotation_text]
        tokens == PathTokens(file_path)
        annot_dir == IF m.annotation_dir # <<>> THEN m.annotation_dir
                     ELSE Dirname(tokens)
        video_name == Stem(Basename(tokens))
        annotation_file == Join(annot_dir,
                                video_name \o <<"_annotations.txt">>)
        line == Line(DisplayPath(file_path), start_time_str, end_time_str,
                     annotation_text)
        old == Content(fs, annotation_file)
    IN  IF file_path \in {"", "None"}
        THEN [files |-> fs, call |-> [c EXCEPT !.error = "No video loaded"]]
        ELSE IF w.cause = "None"
        THEN [files |-> WriteFile(fs, annotation_file, Append(old, line)),
              call |-> [c EXCEPT !.ok = TRUE, !.file = annotation_file,
                                 !.io = TRUE]]
        ELSE IF w.at_open
        THEN [files |-> fs, call |-> [c EXCEPT !.error = w.cause,
                                               !.io = TRUE]]
        ELSE [files |-> WriteFile(fs, annotation_file,
                            IF w.partial THEN Append(old, PartialLine)
                            ELSE old),
              call |-> [c EXCEPT !.error = w.cause, !.io = TRUE]]

\* ------------------------------------------------- calls of the player API
\* The frame counts a caller passes to skip_frames.
SkipCounts == {-100, 1, 100}

\* The frame counts passed to skip_frames on the longer files.
LongSkipCounts == {-100, -3, -1, 0, 1, 2, 4, 100}

\* The seconds a caller passes to skip_time (the skip buttons of the tool).
SkipSeconds == {-30, -5, -1, 1, 5, 30}

\* The outcomes of the decoder's reads within one get_frame: <<d, j>>, the
\* first read decodes (d), or it fails and j reads of the recovery run decode.
DecodeOutcomes == {<<TRUE, 0>>} \cup ({FALSE} \X (0 .. MaxFrames))

\* A call of the player from outside the window's handlers.
Do(r) ==
    /\ SetPlayer(r.player)
    /\ last' = r.call
    /\ prev_get' = Observe(prev_get, r)
    /\ open_handles' = Handles(open_handles, r)
    /\ after_release' = AfterRelease(after_release, r)
    /\ UNCHANGED <<is_playing, playback_id, timers, is_nav_scale_drag,
                   was_playing_before_nav, bound, closed, start_timestamp,
                   annotation_history, annotation_dir, annotation_entry,
                   files, saved>>

LoadVideo ==
    \E f \in Files :
        /\ Do(load_video(Player, f))

\* The files opened while annotations are marked and saved.
ShortFiles == {"b.avi", "missing.mp4"}

LoadShortVideo ==
    \E f \in ShortFiles :
        /\ Do(load_video(Player, f))

\* Two videos that open, one after the other in the one window.
TwoFiles == {"a.mp4", "b.avi"}

LoadEitherVideo ==
    \E f \in TwoFiles :
        /\ Do(load_video(Player, f))

LoadNoteVideo ==
    /\ Do(load_video(Player, "note.mp4"))

\* The skip buttons pressed on that video: one second on, thirty back.
NoteSkips == {-30, 1}

SkipNote ==
    \E s \in NoteSkips :
        /\ Do(skip_time(Player, s))

\* The outcomes of the decoder's reads on that video: the recovery run
\* decodes none, one, all but one or all of its reads.
RecoveryOutcomes ==
    {<<TRUE, 0>>}
    \cup ({FALSE} \X {0, 1, keyframe_interval, keyframe_interval + 1})

GetNoteFrame ==
    \E o \in RecoveryOutcomes :
        /\ Do(get_frame(Player, o[1], o[2]))

LoadLongVideo ==
    \E f \in LongFiles \cup {"e.mp4"} :
        /\ Do(load_video(Player, f))

GetFrame ==
    \E o \in DecodeOutcomes :
        /\ Do(get_frame(Player, o[1], o[2]))

NextFrame ==
    /\ Do(next_frame(Player))

PreviousFrame ==
    /\ Do(previous_frame(Player))

SkipFrames ==
    \E n \in SkipCounts :
        /\ Do(skip_frames(Player, n))

LongSkipFrames ==
    \E n \in LongSkipCounts :
        /\ Do(skip_frames(Player, n))

SkipTime ==
    \E s \in SkipSeconds :
        /\ Do(skip_time(Player, s))

Release ==
    /\ Do(release(Player))

\* ------------------------------------------------------ VideoAnnotationApp
\* The ids root.after hands out; an id is reused once nothing refers to it.
TimerIds == 1 .. MaxTimers

\* The mouse events on the navigation bar: the pixel position event.x (the
\* pointer may leave the widget during a drag) and what winfo_width() reports,
\* <<x, width>>; the width is 0 while the widget is not laid out.
MouseEvents == ((-1 .. (ScaleWidth + 1)) \X {ScaleWidth}) \cup {<<0, 0>>}

\* The application as a record: the player, its latest call, and the fields
\* of VideoAnnotationApp.
App ==
    [player |-> Player, call |-> last, prev_get |-> prev_get,
     open_handles |-> open_handles, after_release |-> after_release,
     is_playing |-> is_playing,
     playback_id |-> playback_id, timers |-> timers,
     is_nav_scale_drag |-> is_nav_scale_drag,
     was_playing_before_nav |-> was_playing_before_nav, bound |-> bound,
     closed |-> closed, mgr |-> Mgr, annotation_entry |-> annotation_entry,
     files |-> files, saved |-> saved]

SetApp(a) ==
    /\ SetPlayer(a.player)
    /\ last' = a.call
    /\ prev_get' = a.prev_get
    /\ open_handles' = a.open_handles
    /\ after_release' = a.after_release
    /\ is_playing' = a.is_playing
    /\ playback_id' = a.playback_id
    /\ timers' = a.timers
    /\ is_nav_scale_drag' = a.is_nav_scale_drag
    /\ was_playing_before_nav' = a.was_playing_before_nav
    /\ bound' = a.bound
    /\ closed' = a.closed
    /\ start_timestamp' = a.mgr.start_timestamp
    /\ annotation_history' = a.mgr.annotation_history
    /\ annotation_dir' = a.mgr.annotation_dir
    /\ annotation_entry' = a.annotation_entry
    /\ files' = a.files
    /\ saved' = a.saved

\* a call of the player made by a handler
Called(a, r) ==
    [a EXCEPT !.player = r.player, !.call = r.call,
              !.prev_get = Observe(a.prev_get, r),
              !.open_handles = Handles(a.open_handles, r),
              !.after_release = AfterRelease(a.after_release, r)]

\* root.after(delay, self.play_video): a new id is scheduled and returned
After(a) ==
    LET id == CHOOSE i \in TimerIds : i \notin a.timers /\ i # a.playback_id
    IN  [a EXCEPT !.playback_id = id, !.timers = a.timers \cup {id}]

\* VideoAnnotationApp.display_frame(): the labels and the canvas it draws
\* are not modelled.
display_frame(a, d, j) ==
    With(a, LAMBDA self :
        IF ~is_loaded(self.player) THEN self
        ELSE With(get_frame(self.player, d, j), LAMBDA r : Called(self, r)))

\* play_video that finds the end of the video and leaves is_playing set
play_video_KeepsPlaying(a, d, j) ==
    With(a, LAMBDA self :
        IF ~self.is_playing THEN self
        ELSE With(next_frame(self.player), LAMBDA r :
            IF r.call.ok
            THEN With(display_frame(Called(self, r), d, j), LAMBDA b : After(b))
            ELSE [Called(self, r) EXCEPT !.playback_id = 0]))

\* VideoAnnotationApp.play_video()
play_video(a, d, j) ==
    With(a, LAMBDA self :
        IF ~self.is_playing THEN self
        ELSE With(next_frame(self.player), LAMBDA r :
            IF r.call.ok
            THEN With(display_frame(Called(self, r), d, j), LAMBDA b : After(b))
            ELSE [Called(self, r) EXCEPT !.is_playing = FALSE,
                                         !.playback_id = 0]))

\* toggle_playback that pauses without cancelling the scheduled call
toggle_playback_NoCancel(a, d, j) ==
    With(a, LAMBDA self :
        IF ~is_loaded(self.player) THEN self
        ELSE IF ~self.is_playing
        THEN play_video([self EXCEPT !.is_playing = TRUE], d, j)
        ELSE [self EXCEPT !.is_playing = FALSE])

\* VideoAnnotationApp.toggle_playback()
toggle_playback(a, d, j) ==
    With(a, LAMBDA self :
        IF ~is_loaded(self.player) THEN self
        ELSE IF ~self.is_playing
        THEN play_video([self EXCEPT !.is_playing = TRUE], d, j)
        ELSE IF self.playback_id # 0
        THEN [self EXCEPT !.is_playing = FALSE,
                          !.timers = self.timers \ {self.playback_id},
                          !.playback_id = 0]
        ELSE [self EXCEPT !.is_playing = FALSE])

\* navigation handlers that leave the playback running
PauseIfPlaying_Never(a) == a

\* "Pause playback if playing" of the navigation handlers
PauseIfPlaying(a) == IF a.is_playing THEN toggle_playback(a, FALSE, 0) ELSE a

\* frame_num of the navigation bar handlers:
\* max(0, min(int((x / scale_width) * total_frames), total_frames - 1))
ScaleFrame(p, x, w) ==
    Max(0, Min(IntTrunc(x * p.total_frames, w), p.total_frames - 1))

\* VideoAnnotationApp.load_video(): f = "" is a cancelled file dialog
app_load_video(a, f, d, j) ==
    IF f = "" THEN a
    ELSE With(load_video(a.player, f), LAMBDA r :
             IF ~r.call.ok THEN Called(a, r)
             ELSE display_frame(Called(a, r), d, j))

\* VideoAnnotationApp.next_frame()
app_next_frame(a, d, j) ==
    IF ~is_loaded(a.player) THEN a
    ELSE With(PauseIfPlaying(a), LAMBDA b :
             display_frame(Called(b, next_frame(b.player)), d, j))

\* VideoAnnotationApp.previous_frame()
app_previous_frame(a, d, j) ==
    IF ~is_loaded(a.player) THEN a
    ELSE With(PauseIfPlaying(a), LAMBDA b :
             display_frame(Called(b, previous_frame(b.player)), d, j))

\* VideoAnnotationApp.skip_time(seconds)
app_skip_time(a, seconds, d, j) ==
    IF ~is_loaded(a.player) THEN a
    ELSE With(PauseIfPlaying(a), LAMBDA b :
             display_frame(Called(b, skip_time(b.player, seconds)), d, j))

\* VideoAnnotationApp.on_nav_scale_click(event)
on_nav_scale_click(a, x, w, d, j) ==
    IF ~is_loaded(a.player) THEN a
    ELSE With([PauseIfPlaying(a) EXCEPT !.is_nav_scale_drag = TRUE],
              LAMBDA b :
         With(IF w > 0
              THEN display_frame(
                     [b EXCEPT !.player.current_frame =
                                   ScaleFrame(b.player, x, w)], d, j)
              ELSE b,
              LAMBDA c :
              [c EXCEPT !.was_playing_before_nav =
                            IF a.is_playing THEN "True" ELSE "False",
                        !.bound = TRUE]))

\* VideoAnnotationApp.on_nav_scale_drag(event)
on_nav_scale_drag(a, x, w, d, j) ==
    LET frame_num == ScaleFrame(a.player, x, w)
    IN  IF ~is_loaded(a.player) THEN a
        ELSE IF w > 0 /\ frame_num # a.player.current_frame
        THEN display_frame([a EXCEPT !.player.current_frame = frame_num], d, j)
        ELSE a

\* on_nav_scale_release that never resumes the playback
on_nav_scale_release_NoResume(a, d, j) ==
    [a EXCEPT !.is_nav_scale_drag = FALSE, !.bound = FALSE]

\* VideoAnnotationApp.on_nav_scale_release(event)
on_nav_scale_release(a, d, j) ==
    With([a EXCEPT !.is_nav_scale_drag = FALSE], LAMBDA b :
        With(IF b.was_playing_before_nav = "True" /\ ~b.is_playing
             THEN toggle_playback(b, d, j)
             ELSE b,
             LAMBDA c : [c EXCEPT !.bound = FALSE]))

\* VideoAnnotationApp.cleanup(), run when the window is closed
cleanup(a) ==
    LET b == [a EXCEPT !.is_playing = FALSE,
                       !.timers = a.timers \ {a.playback_id}]
    IN  [Called(b, release(b.player)) EXCEPT !.closed = TRUE]

\* VideoAnnotationApp.mark_start()
mark_start(a) ==
    LET c == [NoSave EXCEPT !.op = "mark_start"]
    IN  IF ~is_loaded(a.player)
        THEN [a EXCEPT !.saved = [c EXCEPT !.warning =
                                      "Please load a video first"]]
        ELSE [a EXCEPT !.mgr = set_start(a.mgr,
                                         get_current_timestamp(a.player)),
                       !.saved = [c EXCEPT !.ok = TRUE]]

\* mark_end_and_save that uses up the pending start with a successful save
mark_end_and_save_ClearsStart(a, w) ==
    LET c == [NoSave EXCEPT !.op = "mark_end_and_save"]
        annotation_text == Strip(a.annotation_entry)
        end_ts == get_current_timestamp(a.player)
        start_ts == get_start(a.mgr)
    IN  IF ~is_loaded(a.player)
        THEN [a EXCEPT !.saved = [c EXCEPT !.warning =
                                      "Please load a video first"]]
        ELSE IF ~has_start(a.mgr)
        THEN [a EXCEPT !.saved = [c EXCEPT !.warning =
                                      "Please mark start timestamp first"]]
        ELSE IF annotation_text = <<>>
        THEN [a EXCEPT !.saved = [c EXCEPT !.warning =
                                      "Please enter an annotation"]]
        ELSE IF TimeLess(end_ts, start_ts)
        THEN [a EXCEPT !.saved = [c EXCEPT !.warning =
                           "End timestamp must be after start timestamp"]]
        ELSE With(save_annotation(a.mgr, a.files, a.player.video_path,
                                  format_timestamp(start_ts),
                                  format_timestamp(end_ts),
                                  annotation_text, w),
                  LAMBDA r :
                  IF ~r.call.ok
                  THEN [a EXCEPT !.files = r.files,
                                 !.saved = [r.call EXCEPT
                                               !.op = "mark_end_and_save"]]
                  ELSE [a EXCEPT !.files = r.files,
                                 !.mgr = clear_start(
                                     add_to_history(a.mgr, annotation_text)),
                                 !.annotation_entry = <<>>,
                                 !.saved = [r.call EXCEPT
                                               !.op = "mark_end_and_save"]])

\* mark_end_and_save that does not record the saved text in the history
mark_end_and_save_NoHistory(a, w) ==
    LET c == [NoSave EXCEPT !.op = "mark_end_and_save"]
        annotation_text == Strip(a.annotation_entry)
        end_ts == get_current_timestamp(a.player)
        start_ts == get_start(a.mgr)
    IN  IF ~is_loaded(a.player)
        THEN [a EXCEPT !.saved = [c EXCEPT !.warning =
                                      "Please load a video first"]]
        ELSE IF ~has_start(a.mgr)
        THEN [a EXCEPT !.saved = [c EXCEPT !.warning =
                                      "Please mark start timestamp first"]]
        ELSE IF annotation_text = <<>>
        THEN [a EXCEPT !.saved = [c EXCEPT !.warning =
                                      "Please enter an annotation"]]
        ELSE IF TimeLess(end_ts, start_ts)
        THEN [a EXCEPT !.saved = [c EXCEPT !.warning =
                           "End timestamp must be after start timestamp"]]
        ELSE With(save_annotation(a.mgr, a.files, a.player.video_path,
                                  format_timestamp(start_ts),
                                  format_timestamp(end_ts),
                                  annotation_text, w),
                  LAMBDA r :
                  IF ~r.call.ok
                  THEN [a EXCEPT !.files = r.files,
                                 !.saved = [r.call EXCEPT
                                               !.op = "mark_end_and_save"]]
                  ELSE [a EXCEPT !.files = r.files,
                                 !.annotation_entry = <<>>,
                                 !.saved = [r.call EXCEPT
                                               !.op = "mark_end_and_save"]])

\* mark_end_and_save that saves whatever the order of the two marks
mark_end_and_save_Unordered(a, w) ==
    LET c == [NoSave EXCEPT !.op = "mark_end_and_save"]
        annotation_text == Strip(a.annotation_entry)
        end_ts == get_current_timestamp(a.player)
        start_ts == get_start(a.mgr)
    IN  IF ~is_loaded(a.player)
        THEN [a EXCEPT !.saved = [c EXCEPT !.warning =
                                      "Please load a video first"]]
        ELSE IF ~has_start(a.mgr)
        THEN [a EXCEPT !.saved = [c EXCEPT !.warning =
                                      "Please mark start timestamp first"]]
        ELSE IF annotation_text = <<>>
        THEN [a EXCEPT !.saved = [c EXCEPT !.warning =
                                      "Please enter an annotation"]]
        ELSE With(save_annotation(a.mgr, a.files, a.player.video_path,
                                  format_timestamp(start_ts),
                                  format_timestamp(end_ts),
                                  annotation_text, w),
                  LAMBDA r :
                  IF ~r.call.ok
                  THEN [a EXCEPT !.files = r.files,
                                 !.saved = [r.call EXCEPT
                                               !.op = "mark_end_and_save"]]
                  ELSE [a EXCEPT !.files = r.files,
                                 !.mgr = add_to_history(a.mgr,
                                                        annotation_text),
                                 !.annotation_entry = <<>>,
                                 !.saved = [r.call EXCEPT
                                               !.op = "mark_end_and_save"]])

\* VideoAnnotationApp.mark_end_and_save(), with the file system's answer w
\* to the write
mark_end_and_save(a, w) ==
    LET c == [NoSave EXCEPT !.op = "mark_end_and_save"]
        annotation_text == Strip(a.annotation_entry)
        end_ts == get_current_timestamp(a.player)
        start_ts == get_start(a.mgr)
    IN  IF ~is_loaded(a.player)
        THEN [a EXCEPT !.saved = [c EXCEPT !.warning =
                                      "Please load a video first"]]
        ELSE IF ~has_start(a.mgr)
        THEN [a EXCEPT !.saved = [c EXCEPT !.warning =
                                      "Please mark start timestamp first"]]
        ELSE IF annotation_text = <<>>
        THEN [a EXCEPT !.saved = [c EXCEPT !.warning =
                                      "Please enter an annotation"]]
        ELSE IF TimeLess(end_ts, start_ts)
        THEN [a EXCEPT !.saved = [c EXCEPT !.warning =
                           "End timestamp must be after start timestamp"]]
        ELSE With(save_annotation(a.mgr, a.files, a.player.video_path,
                                  format_timestamp(start_ts),
                                  format_timestamp(end_ts),
                                  annotation_text, w),
                  LAMBDA r :
                  IF ~r.call.ok
                  THEN [a EXCEPT !.files = r.files,
                                 !.saved = [r.call EXCEPT
                                               !.op = "mark_end_and_save"]]
                  ELSE [a EXCEPT !.files = r.files,
                                 !.mgr = add_to_history(a.mgr,
                                                        annotation_text),
                                 !.annotation_entry = <<>>,
                                 !.saved = [r.call EXCEPT
                                               !.op = "mark_end_and_save"]])

\* VideoAnnotationApp.clear_markers()
clear_markers(a) ==
    [a EXCEPT !.mgr = clear_start(a.mgr),
              !.saved = [NoSave EXCEPT !.op = "clear_markers", !.ok = TRUE]]

\* --------------------------------------------------- events of the window
AppLoadVideo ==
    /\ ~closed
    /\ \E f \in Files \cup {""}, o \in DecodeOutcomes :
         SetApp(app_load_video(App, f, o[1], o[2]))

AppNextFrame ==
    /\ ~closed
    /\ \E o \in DecodeOutcomes : SetApp(app_next_frame(App, o[1], o[2]))

AppPreviousFrame ==
    /\ ~closed
    /\ \E o \in DecodeOutcomes : SetApp(app_previous_frame(App, o[1], o[2]))

AppSkipTime ==
    /\ ~closed
    /\ \E s \in SkipSeconds, o \in DecodeOutcomes :
         SetApp(app_skip_time(App, s, o[1], o[2]))

TogglePlayback ==
    /\ ~closed
    /\ \E o \in DecodeOutcomes : SetApp(toggle_playback(App, o[1], o[2]))

\* A scheduled play_video call comes due.
PlayVideoTimer ==
    /\ ~closed
    /\ \E id \in timers, o \in DecodeOutcomes :
         SetApp(play_video([App EXCEPT !.timers = timers \ {id}], o[1], o[2]))

\* The user opens a video while nothing plays.
LoadToPlay ==
    /\ ~closed /\ ~is_playing
    /\ \E f \in Files \cup LongFiles, o \in DecodeOutcomes :
         SetApp(app_load_video(App, f, o[1], o[2]))

\* The user presses Play, and then leaves the window alone.
StartPlayback ==
    /\ ~closed /\ ~is_playing
    /\ \E o \in DecodeOutcomes : SetApp(toggle_playback(App, o[1], o[2]))

\* The mouse button goes down on the navigation bar.
NavScaleClick ==
    /\ ~closed /\ ~bound
    /\ \E e \in MouseEvents, o \in DecodeOutcomes :
         SetApp(on_nav_scale_click(App, e[1], e[2], o[1], o[2]))

NavScaleDrag ==
    /\ ~closed /\ bound
    /\ \E e \in MouseEvents, o \in DecodeOutcomes :
         SetApp(on_nav_scale_drag(App, e[1], e[2], o[1], o[2]))

NavScaleRelease ==
    /\ ~closed /\ bound
    /\ \E o \in DecodeOutcomes : SetApp(on_nav_scale_release(App, o[1], o[2]))

Cleanup == ~closed /\ SetApp(cleanup(App))

\* ------------------------------------------- events of the annotation part
\* What the user types into the annotation entry.
EntryTexts == {<<>>, <<" ">>, <<" ", "n", " ">>}

\* How many lines the files hold together.
RECURSIVE TotalLines(_)
TotalLines(fs) ==
    IF DOMAIN fs = {} THEN 0
    ELSE LET f == CHOOSE x \in DOMAIN fs : TRUE
         IN  Len(fs[f]) + TotalLines([x \in DOMAIN fs \ {f} |-> fs[x]])

\* The user edits the annotation entry.
TypeAnnotation ==
    /\ ~closed
    /\ \E t \in EntryTexts : annotation_entry' = t
    /\ UNCHANGED <<video_capture, video_path, current_frame, total_frames,
                   fps, last_valid_frame, last_read_position, last, prev_get,
                   open_handles, after_release, is_playing, playback_id,
                   timers, is_nav_scale_drag, was_playing_before_nav, bound,
                   closed, start_timestamp, annotation_history,
                   annotation_dir, files, saved>>

\* The user types a note into the annotation entry.
NoteTexts == {<<"n", "o", "t", "e">>, <<" ", "n", "o", "t", "e">>}

TypeNote ==
    /\ ~closed
    /\ \E t \in NoteTexts : annotation_entry' = t
    /\ UNCHANGED <<video_capture, video_path, current_frame, total_frames,
                   fps, last_valid_frame, last_read_position, last, prev_get,
                   open_handles, after_release, is_playing, playback_id,
                   timers, is_nav_scale_drag, was_playing_before_nav, bound,
                   closed, start_timestamp, annotation_history,
                   annotation_dir, files, saved>>

MarkStart == ~closed /\ SetApp(mark_start(App))

MarkEndAndSave ==
    /\ ~closed
    /\ TotalLines(files) < MaxLines
    /\ \E w \in WriteOutcomes : SetApp(mark_end_and_save(App, w))

ClearMarkers == ~closed /\ SetApp(clear_markers(App))

\* ------------------------------------------ calls of the AnnotationManager
\* The arguments of the calls.
StartTimes == {Seconds(0, 1), Seconds(10, 25)}
Labels == {format_timestamp(t) : t \in StartTimes}
Texts == {<<>>, <<"n">>, <<"x">>}
Dirs == {<<"/", "n">>}
SavePaths == {"", "None", "a.mp4"}

\* A call of the manager that gives it the fields m, the file system fs and
\* the result c.
DoLog(m, fs, c) ==
    /\ start_timestamp' = m.start_timestamp
    /\ annotation_history' = m.annotation_history
    /\ annotation_dir' = m.annotation_dir
    /\ files' = fs
    /\ saved' = c
    /\ UNCHANGED <<video_capture, video_path, current_frame, total_frames,
                   fps, last_valid_frame, last_read_position, last, prev_get,
                   open_handles, after_release, is_playing, playback_id,
                   timers, is_nav_scale_drag, was_playing_before_nav, bound,
                   closed, annotation_entry>>

SetStart ==
    \E t \in StartTimes :
        /\ DoLog(set_start(Mgr, t), files,
                 [NoSave EXCEPT !.op = "set_start"])

ClearStart ==
    /\ DoLog(clear_start(Mgr), files, [NoSave EXCEPT !.op = "clear_start"])

AddToHistory ==
    \E t \in Texts :
        /\ DoLog(add_to_history(Mgr, t), files,
                 [NoSave EXCEPT !.op = "add_to_history", !.text = t])

SetDirectory ==
    \E d \in Dirs :
        /\ DoLog(set_directory(Mgr, d), files,
                 [NoSave EXCEPT !.op = "set_directory"])

SaveAnnotation ==
    /\ TotalLines(files) < MaxLines
    /\ \E f \in SavePaths, e \in Labels, w \in WriteOutcomes :
         LET r == save_annotation(Mgr, files, f,
                                  format_timestamp(Seconds(0, 1)), e,
                                  <<"n">>, w)
         IN  DoLog(Mgr, r.files, r.call)

\* The seconds given to format_timestamp: quarters of a second around the
\* minute, the hour and the day, binary fractions next to a thousandth's
\* half, and ten-thousandths.
FormatTimes ==
    {Seconds(w * 4 + f, 4) :
         w \in {0, 59, 60, 3599, 3600, 3661, 86399, 90000}, f \in 0 .. 3}
    \cup {Seconds(w * 2097152 + f, 2097152) :
              w \in {0, 59, 61},
              f \in {1, 131071, 131072, 131073, 393215, 393216, 393217,
                     2097151}}
    \cup {Seconds(w * 10000 + f, 10000) :
              w \in {0, 59}, f \in {4, 6, 1234, 9994, 9996}}

\* set_start(timestamp) with one of those seconds.
SetFormatTime ==
    \E t \in FormatTimes :
        /\ DoLog(set_start(Mgr, t), files,
                 [NoSave EXCEPT !.op = "set_start"])

\* start_time_str = self.player.format_timestamp(start_timestamp)
FormatStart ==
    /\ has_start(Mgr)
    /\ DoLog(Mgr, files,
             [NoSave EXCEPT !.op = "format_timestamp",
                            !.start = format_timestamp(get_start(Mgr))])

\* ---------------------------------------------------------- specifications
app_vars == <<is_playing, playback_id, timers, is_nav_scale_drag,
              was_playing_before_nav, bound, closed>>

vars == <<video_capture, video_path, current_frame, total_frames, fps,
          last_valid_frame, last_read_position, last, prev_get,
          open_handles, after_release, is_playing,
          playback_id, timers, is_nav_scale_drag, was_playing_before_nav,
          bound, closed, start_timestamp, annotation_history, annotation_dir,
          annotation_entry, files, saved>>

\* VideoPlayer.__init__ and VideoAnnotationApp.__init__
Init ==
    /\ video_capture = NoCapture
    /\ video_path = "None"
    /\ current_frame = 0
    /\ total_frames = 0
    /\ fps = 0
    /\ last_valid_frame = NoFrame
    /\ last_read_position = -1
    /\ last = NoCall
    /\ prev_get = NoGet
    /\ open_handles = 0
    /\ after_release = FALSE
    /\ is_playing = FALSE
    /\ playback_id = 0
    /\ timers = {}
    /\ is_nav_scale_drag = FALSE
    /\ was_playing_before_nav = "unset"
    /\ bound = FALSE
    /\ closed = FALSE
    /\ start_timestamp = NoTime
    /\ annotation_history = <<>>
    /\ annotation_dir = NoDir
    /\ annotation_entry = <<>>
    /\ files = <<>>
    /\ saved = NoSave

\* Any sequence of calls of the VideoPlayer class.
NextPlayer ==
    \/ LoadVideo
    \/ GetFrame
    \/ NextFrame
    \/ PreviousFrame
    \/ SkipFrames
    \/ SkipTime
    \/ Release

SpecPlayer == Init /\ [][NextPlayer]_vars

\* Any sequence of events of the application's window.
NextApp ==
    \/ AppLoadVideo
    \/ AppNextFrame
    \/ AppPreviousFrame
    \/ AppSkipTime
    \/ TogglePlayback
    \/ PlayVideoTimer
    \/ NavScaleClick
    \/ NavScaleDrag
    \/ NavScaleRelease
    \/ Cleanup

SpecApp == Init /\ [][NextApp]_vars

\* format_timestamp applied to the seconds of FormatTimes.
NextFormat ==
    \/ SetFormatTime
    \/ FormatStart

SpecFormat == Init /\ [][NextFormat]_vars

\* A playback that no user action interrupts: the user acts only while
\* nothing plays.
NextPlay ==
    \/ LoadToPlay
    \/ StartPlayback
    \/ PlayVideoTimer

SpecPlay == Init /\ [][NextPlay]_vars

\* The same with Tk's event loop, which runs a call scheduled with
\* root.after once its delay is over.
SpecPlayLive == SpecPlay /\ WF_vars(PlayVideoTimer)

\* Any sequence of calls of the AnnotationManager class.
NextLog ==
    \/ SetStart
    \/ ClearStart
    \/ AddToHistory
    \/ SetDirectory
    \/ SaveAnnotation

SpecLog == Init /\ [][NextLog]_vars

\* The marking and saving of annotations in the window, on a video that is
\* loaded and stepped through by calls of the player.
NextSave ==
    \/ LoadShortVideo
    \/ NextFrame
    \/ PreviousFrame
    \/ TypeAnnotation
    \/ MarkStart
    \/ MarkEndAndSave
    \/ ClearMarkers

SpecSave == Init /\ [][NextSave]_vars

\* Annotations across a change of the video.
NextSwitch ==
    \/ LoadEitherVideo
    \/ NextFrame
    \/ TypeNote
    \/ MarkStart
    \/ MarkEndAndSave

SpecSwitch == Init /\ [][NextSwitch]_vars

\* A 100-frame video at 25 frames per second, moved through by the skip
\* buttons and annotated with a note.
NextNote ==
    \/ LoadNoteVideo
    \/ SkipNote
    \/ TypeNote
    \/ MarkStart
    \/ MarkEndAndSave

SpecNote == Init /\ [][NextNote]_vars

\* get_frame on the 100-frame video, further than keyframe_interval from
\* its start.
NextRecover ==
    \/ LoadNoteVideo
    \/ SkipNote
    \/ GetNoteFrame

SpecRecover == Init /\ [][NextRecover]_vars

\* The calls that move current_frame without decoding, on the longer files.
NextNav ==
    \/ LoadLongVideo
    \/ NextFrame
    \/ PreviousFrame
    \/ LongSkipFrames
    \/ SkipTime

SpecNav == Init /\ [][NextNav]_vars

\* The events of the window, which call load_video, next_frame,
\* previous_frame and skip_time and set current_frame from the navigation
\* bar, together with direct calls of skip_frames, which no handler calls
\* with a count of its own.
Next == NextApp \/ SkipFrames

Spec == Init /\ [][Next]_vars

\* ================================================================= claims
Clamp(x, lo, hi) == IF x < lo THEN lo ELSE IF x > hi THEN hi ELSE x

\* The latest call is a get_frame call on a player that holds a capture
\* object (is_loaded() is true).
GotFrame == last.op = "get_frame" /\ is_loaded(Player)

\* C1: in every reachable state current_frame lies in [0, total_frames - 1]
\* when total_frames > 0 and is 0 when total_frames = 0.
C1_CurrentFrameInRange ==
    /\ total_frames > 0 => current_frame \in 0 .. (total_frames - 1)
    /\ total_frames = 0 => current_frame = 0

\* A skip beyond the end was cut down to the last frame during a drag of
\* the navigation bar.
C1_Witness ==
    /\ last.op = "skip_frames" /\ last.arg = 100 /\ last.delta = 1
    /\ total_frames = MaxFrames /\ current_frame = MaxFrames - 1
    /\ is_nav_scale_drag

\* The step is a get_frame call on a player that holds a capture object.
GetFrameStep == last'.op = "get_frame" /\ is_loaded(Player)

\* C2 as stated: get_frame fails only when the decode fails and no frame is
\* cached, serves the cache with used_cache = TRUE whenever the decode fails
\* and a frame is cached, and used_cache is FALSE exactly when the decode
\* succeeded.
C2_Original ==
    [][GetFrameStep =>
        /\ ~last'.ok => ~last'.decoded /\ last_valid_frame = NoFrame
        /\ ~last'.decoded /\ last_valid_frame # NoFrame =>
             last'.ok /\ last'.used_cache /\ last'.frame = last_valid_frame
        /\ ~last'.used_cache <=> last'.decoded]_vars

\* C2, amended: as C2, but used_cache is FALSE exactly when the decode
\* succeeded only among the calls that return a frame; a call that fails
\* returns used_cache = FALSE, too.
C2_CacheFallback ==
    [][GetFrameStep =>
        /\ ~last'.ok => ~last'.decoded /\ last_valid_frame = NoFrame
        /\ ~last'.decoded /\ last_valid_frame # NoFrame =>
             last'.ok /\ last'.used_cache /\ last'.frame = last_valid_frame
        /\ last'.ok => (~last'.used_cache <=> last'.decoded)
        /\ ~last'.ok => ~last'.used_cache]_vars

\* A decode failed and the cached frame was returned in its place.
C2_Witness ==
    /\ GotFrame /\ last.ok /\ last.used_cache /\ ~last.decoded
    /\ last.frame = last_valid_frame /\ last.frame.index # current_frame

\* C3: the cache (last_valid_frame, last_read_position) is overwritten by a
\* get_frame whose decode succeeds, with the decoded frame and current_frame,
\* and cleared to (None, -1) by a successful load_video; every other call
\* leaves it as it is.
C3_CacheChanges ==
    [][LET fresh == last'.op = "get_frame" /\ last'.decoded
           loaded == last'.op = "load_video" /\ last'.ok
       IN  /\ fresh => /\ last'.frame # NoFrame
                       /\ last_valid_frame' = last'.frame
                       /\ last_read_position' = current_frame
           /\ loaded => last_valid_frame' = NoFrame /\ last_read_position' = -1
           /\ ~fresh /\ ~loaded =>
                UNCHANGED <<last_valid_frame, last_read_position>>]_vars

\* A load that failed left the cache of the video before it in place.
C3_Witness ==
    /\ last.op = "load_video" /\ ~last.ok
    /\ last_valid_frame # NoFrame /\ last_read_position > 0

\* C4 as stated: between two get_frame calls on the same video the later one
\* reads sequentially exactly when current_frame grew by exactly 1.
C4_Original ==
    [][GetFrameStep /\ prev_get.at >= 0 /\ ~prev_get.reloaded =>
        (last'.path = "sequential" <=> current_frame = prev_get.at + 1)]_vars

\* C4, amended: the same, when the earlier of the two calls decoded a frame.
\* (After a call that failed or served the cache the test is made against
\* last_read_position, the place of the last decode.)
C4_SequentialAfterDecode ==
    [][GetFrameStep /\ prev_get.at >= 0 /\ ~prev_get.reloaded
         /\ prev_get.decoded =>
        (last'.path = "sequential" <=> current_frame = prev_get.at + 1)]_vars

\* Frame 2 was read sequentially after frame 1.
C4_Witness ==
    /\ GotFrame /\ last.path = "sequential" /\ last.decoded
    /\ current_frame = 2 /\ last.frame = Image(video_path, 2)

\* C5 as stated: on an opened video get_frame fails only when
\* total_frames = 0.
C5_Original ==
    last.op = "get_frame" /\ video_capture.kind = "opened" /\ ~last.ok
        => total_frames = 0

\* C5, amended: on an opened video get_frame returns an image whenever the
\* decode succeeds or a frame has been decoded since the load; it fails only
\* when the decode fails while nothing has been decoded since the load
\* (last_read_position = -1, no cached frame), whatever total_frames is.
C5_ImageOrNothingCached ==
    last.op = "get_frame" /\ video_capture.kind = "opened" =>
        /\ last.ok => last.frame # NoFrame
        /\ last_read_position >= 0 => last.ok
        /\ ~last.ok => /\ ~last.decoded
                       /\ last_valid_frame = NoFrame
                       /\ last_read_position = -1

\* get_frame failed at a frame after the first of a video that has frames.
C5_Witness ==
    /\ last.op = "get_frame" /\ video_capture.kind = "opened" /\ ~last.ok
    /\ total_frames > 1 /\ current_frame > 0

\* C6 as stated: every get_frame whose decode fails has gone through the
\* keyframe recovery, and get_frame fails only when the decode fails and no
\* frame is cached.
C6_Original ==
    GotFrame =>
        /\ ~last.decoded => last.recovery
        /\ ~last.ok => ~last.decoded /\ last_valid_frame = NoFrame

\* C6, amended: the keyframe recovery runs, once, exactly in the calls that
\* seek, at a current_frame > 0, and whose direct read fails; a failed
\* sequential read and a failed read at frame 0 go to the cache at once.
\* get_frame fails only when the decode fails and no frame is cached.
C6_RecoveryOnSeekPath ==
    GotFrame =>
        /\ last.path = "seek" /\ current_frame > 0 /\ ~last.decoded
             => last.recovery
        /\ last.recovery => /\ last.path = "seek" /\ current_frame > 0
                            /\ last.seeks = 2 /\ last.reads >= 2
        /\ last.path = "sequential" \/ current_frame = 0
             => ~last.recovery /\ last.reads = 1
        /\ last.used_cache => ~last.decoded
        /\ ~last.ok => ~last.decoded /\ last_valid_frame = NoFrame

\* The recovery ran, failed, and the cached frame was returned.
C6_Witness ==
    GotFrame /\ last.recovery /\ ~last.decoded /\ last.ok /\ last.used_cache

\* C7: with total_frames > 0, skip_frames(d) sets current_frame to
\* clamp(current_frame + d, 0, total_frames - 1), returns the change of
\* current_frame, and calls neither read nor set of the decoder.
C7_SkipFrames ==
    [][last'.op = "skip_frames" /\ total_frames > 0 =>
        /\ current_frame' = Clamp(current_frame + last'.arg, 0, total_frames - 1)
        /\ last'.delta = current_frame' - current_frame
        /\ last'.reads = 0 /\ last'.seeks = 0
        /\ video_capture' = video_capture]_vars

\* skip_frames(100) at frame 5 of 10 went to frame 9 and returned 4.
C7_Witness ==
    /\ last.op = "skip_frames" /\ last.arg = 100 /\ last.delta = 4
    /\ current_frame = 9 /\ total_frames = 10

\* The integer next to n / d on the side of zero.
TowardZero(n, d) ==
    LET m == Abs(n) \div d
    IN  CHOOSE q \in (0 - m - 1) .. (m + 1) :
          /\ q * n >= 0
          /\ Abs(q) * d <= Abs(n)
          /\ Abs(n) < (Abs(q) + 1) * d

\* C8: skip_time(s) does what skip_frames(t) does, t being s * fps rounded
\* toward zero, and returns the change of current_frame.
C8_SkipTime ==
    [][last'.op = "skip_time" =>
        LET r == skip_frames(Player, TowardZero(last'.arg * fps, 10))
        IN  /\ Player' = r.player
            /\ last'.delta = r.call.delta
            /\ last'.delta = current_frame' - current_frame]_vars

\* skip_time(-5) at frame 10 and 25 fps returned -10 and went to frame 0.
C8_Witness ==
    /\ last.op = "skip_time" /\ last.arg = -5 /\ fps = 250
    /\ last.delta = -10 /\ current_frame = 0

\* C9: next_frame (previous_frame) moves current_frame by +1 (-1) and
\* returns TRUE when the result is within [0, total_frames - 1], else leaves
\* it and returns FALSE; neither reads nor seeks the decoder.
C9_Step ==
    [][/\ last'.op = "next_frame" =>
            IF current_frame + 1 \in 0 .. (total_frames - 1)
            THEN current_frame' = current_frame + 1 /\ last'.ok
            ELSE current_frame' = current_frame /\ ~last'.ok
       /\ last'.op = "previous_frame" =>
            IF current_frame - 1 \in 0 .. (total_frames - 1)
            THEN current_frame' = current_frame - 1 /\ last'.ok
            ELSE current_frame' = current_frame /\ ~last'.ok
       /\ last'.op \in {"next_frame", "previous_frame"} =>
            /\ last'.reads = 0 /\ last'.seeks = 0
            /\ video_capture' = video_capture]_vars

\* next_frame was refused at the last frame of a video that was being read.
C9_Witness ==
    /\ last.op = "next_frame" /\ ~last.ok
    /\ total_frames > 1 /\ current_frame = total_frames - 1
    /\ video_capture.pos > 0

\* C10: after a successful load_video current_frame is 0, the cache is
\* empty and last_read_position is -1; and every frame get_frame returns is
\* a frame of the video of the last successful load.
C10_LoadResets ==
    /\ last.op = "load_video" /\ last.ok =>
         /\ current_frame = 0
         /\ last_valid_frame = NoFrame
         /\ last_read_position = -1
    /\ last.op = "get_frame" /\ last.ok => last.frame.video = video_path

\* A video was loaded after a frame of another video had been decoded.
C10_Witness ==
    /\ last.op = "load_video" /\ last.ok
    /\ prev_get.decoded /\ prev_get.video # video_path /\ prev_get.at > 0
    /\ last_valid_frame = NoFrame

\* C11: when load_video fails, the engine afterwards behaves as with no
\* video loaded: is_loaded() is false, whether or not a video was loaded
\* before.  The code leaves the capture object that did not open in
\* self.video_capture, and is_loaded() only tests it against None.
C11_FailedLoadUnloads ==
    last.op = "load_video" /\ ~last.ok => ~is_loaded(Player)

\* C12: at every point of any sequence of calls at most one decoder handle
\* is open, the one the engine refers to, and a load_video made while the
\* engine holds an open handle releases it before it assigns a new capture.
C12_OneHandle ==
    /\ [](open_handles <= 1 /\ open_handles = CapOpened(video_capture))
    /\ [][last'.op = "load_video" /\ video_capture.kind = "opened"
            => last'.released = 1]_vars

\* A loaded video was replaced by another: one handle was released, one
\* opened, one is open.
C12_Witness ==
    /\ last.op = "load_video" /\ last.ok
    /\ last.released = 1 /\ last.opened = 1
    /\ open_handles = 1
    /\ prev_get.decoded /\ prev_get.video # video_path

\* C13: after release(), until the next successful load_video, is_loaded()
\* is false and get_frame returns failure without reading the decoder and
\* without serving the cached frame.  A load_video that fails after the
\* release leaves a capture object behind, and release() keeps the cache.
C13_ReleasedBehavesUnloaded ==
    after_release =>
        /\ ~is_loaded(Player)
        /\ last.op = "get_frame" =>
               ~last.ok /\ ~last.used_cache /\ last.reads = 0

\* On exit of a handler that left the application as b, the playback is
\* paused and no play_video call is scheduled.
PausedOnExit(b) == ~b.is_playing /\ b.timers = {} /\ b.playback_id = 0

\* C14: whenever the next-frame, previous-frame, time-skip or scrub-click
\* handler runs while playback is active, on its exit is_playing is false
\* and no play_video call is scheduled (the handler pauses first, then moves
\* current_frame): so it is for each of these handlers, run in any reachable
\* state of the open window in which is_playing holds, on any event and
\* with any outcome of the decoder.
C14_NavigationCancels ==
    is_playing /\ ~closed =>
        \A o \in DecodeOutcomes :
            /\ PausedOnExit(app_next_frame(App, o[1], o[2]))
            /\ PausedOnExit(app_previous_frame(App, o[1], o[2]))
            /\ \A sec \in SkipSeconds :
                   PausedOnExit(app_skip_time(App, sec, o[1], o[2]))
            /\ ~bound => \A e \in MouseEvents :
                   PausedOnExit(on_nav_scale_click(App, e[1], e[2],
                                                   o[1], o[2]))

\* The navigation bar was clicked while the video was playing: the playback
\* is paused and nothing is scheduled.
C14_Witness ==
    /\ is_nav_scale_drag /\ was_playing_before_nav = "True"
    /\ ~is_playing /\ timers = {} /\ playback_id = 0
    /\ current_frame > 0

\* C15: in every reachable state of the window at most one play_video call
\* is scheduled, and none while is_playing is false.
C15_OneScheduledCall ==
    /\ Cardinality(timers) <= 1
    /\ ~is_playing => timers = {}
    /\ is_playing => timers = {playback_id}

\* The playback runs and its scheduled call has come due at least once.
C15_Witness ==
    /\ is_playing /\ timers = {playback_id}
    /\ was_playing_before_nav = "unset"
    /\ current_frame = MaxFrames - 1
    /\ last.op = "get_frame" /\ prev_get.at = current_frame

IsPrefix(a, b) == Len(a) <= Len(b) /\ SubSeq(b, 1, Len(a)) = a

\* C17: every successful save_annotation leaves the annotation file equal
\* to its previous content (empty if it was absent) followed by exactly one
\* new line holding the display path, the two labels and the text, and no
\* call ever removes, reorders or rewrites a line of any file.
C17_AppendOnly ==
    [][/\ \A f \in DOMAIN files :
              f \in DOMAIN files' /\ IsPrefix(files[f], files'[f])
       /\ saved'.op = "save_annotation" /\ saved'.ok =>
              files' = WriteFile(files, saved'.file,
                           Append(Content(files, saved'.file),
                                  Line(DisplayPath(saved'.video_path),
                                       saved'.start, saved'.end,
                                       saved'.text)))]_vars

\* A save has put a second line behind a line that an earlier save wrote.
C17_Witness ==
    /\ saved.op = "save_annotation" /\ saved.ok
    /\ saved.file \in DOMAIN files
    /\ Len(files[saved.file]) = 2
    /\ files[saved.file][1].complete /\ files[saved.file][2].complete
    /\ files[saved.file][1] # files[saved.file][2]

\* C18: save_annotation called with an empty or absent video path returns
\* failure with the error "No video loaded", opens no file, creates and
\* modifies none, and leaves the pending start, the history and the
\* annotation directory unchanged.
C18_NoVideoNoFile ==
    [][saved'.op = "save_annotation" /\ saved'.video_path \in {"", "None"}
         => /\ ~saved'.ok /\ saved'.error = "No video loaded"
            /\ ~saved'.io /\ files' = files
            /\ UNCHANGED <<start_timestamp, annotation_history,
                           annotation_dir>>]_vars

\* A save with an empty path was refused while a file, a pending start, a
\* history and a chosen directory existed.
C18_Witness ==
    /\ saved.op = "save_annotation" /\ saved.video_path = ""
    /\ ~saved.ok /\ saved.error = "No video loaded"
    /\ DOMAIN files # {} /\ start_timestamp # NoTime
    /\ annotation_history # <<>> /\ annotation_dir # NoDir

\* C19: when the file write of a save fails, mark_end_and_save gets the
\* failure with its cause, the file holds no partial line (no file's
\* content has changed), and the history, the pending start and the text
\* in the entry are unchanged.  A write that fails part way (disk full)
\* leaves the beginning of the line in the file.
C19_FailedWriteLeavesNoTrace ==
    [][MarkEndAndSave /\ saved'.io /\ ~saved'.ok
         => /\ saved'.error # "None"
            /\ \A f \in DOMAIN files' : files'[f] = Content(files, f)
            /\ UNCHANGED <<start_timestamp, annotation_history,
                           annotation_entry>>]_vars

\* The order of two labels HH:MM:SS.mmm.
LabelLeq(a, b) ==
    \/ a.hours < b.hours
    \/ a.hours = b.hours /\ a.minutes < b.minutes
    \/ a.hours = b.hours /\ a.minutes = b.minutes /\ a.millis <= b.millis

\* C20: mark_end_and_save invoked with no video loaded (no open decoder
\* session), no start marked, an entry that is empty after trimming, or a
\* current timestamp earlier than the pending start does no file I/O and
\* leaves the pending start, the history and current_frame unchanged; and
\* every line in a file has an end label not before its start label.
\* After a load_video that failed, is_loaded() is true and the save is made.
C20_RejectedBeforeIO ==
    /\ [][MarkEndAndSave
            /\ \/ video_capture.kind # "opened"
               \/ ~has_start(Mgr)
               \/ Strip(annotation_entry) = <<>>
               \/ TimeLess(get_current_timestamp(Player), start_timestamp)
            => /\ ~saved'.io /\ files' = files
               /\ UNCHANGED <<start_timestamp, annotation_history,
                              current_frame>>]_vars
    /\ [](\A f \in DOMAIN files : \A i \in 1 .. Len(files[f]) :
             files[f][i].complete =>
                 LabelLeq(files[f][i].start, files[f][i].end))

\* C21: the pending start is set by mark start to the current timestamp,
\* whatever start was pending; it becomes unset only through clear; and
\* mark-end-and-save reads it without clearing it, so that after a
\* successful save the same start is still pending and the next save uses
\* it again.
C21_PendingStart ==
    [][/\ MarkStart /\ is_loaded(Player) =>
              start_timestamp' = get_current_timestamp(Player)
       /\ MarkEndAndSave => start_timestamp' = start_timestamp
       /\ start_timestamp' # start_timestamp => MarkStart \/ ClearMarkers
       /\ start_timestamp # NoTime /\ start_timestamp' = NoTime =>
              ClearMarkers]_vars

\* Two saves in a row have written two lines with the one start, which is
\* still pending.
C21_Witness ==
    /\ saved.op = "mark_end_and_save" /\ saved.ok
    /\ start_timestamp # NoTime
    /\ saved.start = format_timestamp(start_timestamp)
    /\ Len(files[saved.file]) = 2
    /\ files[saved.file][1].complete /\ files[saved.file][2].complete
    /\ files[saved.file][1].start = files[saved.file][2].start
    /\ files[saved.file][1].end # files[saved.file][2].end

Occurs(h, t) == \E i \in 1 .. Len(h) : h[i] = t

\* C22: add_to_history(text) appends text exactly when it is non-empty and
\* not yet in the history, so a second call with the same text and a call
\* with the empty text change nothing; the history never holds a text
\* twice, and every earlier history is a prefix of every later one (texts
\* stay in first-seen order).
C22_HistoryIsOrderedSet ==
    /\ [](\A i, j \in 1 .. Len(annotation_history) :
              annotation_history[i] = annotation_history[j] => i = j)
    /\ [](\A t \in Texts :
              /\ add_to_history(Mgr, t).annotation_history =
                     IF t # <<>> /\ ~Occurs(annotation_history, t)
                     THEN Append(annotation_history, t)
                     ELSE annotation_history
              /\ add_to_history(add_to_history(Mgr, t), t) =
                     add_to_history(Mgr, t))
    /\ [](add_to_history(Mgr, <<>>) = Mgr)
    /\ [][IsPrefix(annotation_history, annotation_history')]_vars

\* A text already in the history, with a later text behind it, was added
\* again and the history kept its two entries.
C22_Witness ==
    /\ saved.op = "add_to_history" /\ saved.text = <<"x">>
    /\ annotation_history = << <<"x">>, <<"n">> >>

\* The file system accepts the write.
WriteOk == [cause |-> "None", at_open |-> FALSE, partial |-> FALSE]

\* The seconds of frame n of the loaded video.
FrameTime(n) == Seconds(n * 10, fps)

\* What mark_end_and_save does when the start was marked at frame s, the
\* current frame is e and the entry holds T between its blanks.
SavesNote(s, e, T) ==
    LET a == mark_end_and_save(App, WriteOk)
        file == a.saved.file
        h == a.mgr.annotation_history
    IN  /\ a.saved.ok
        /\ a.files = WriteFile(files, file,
                          Append(Content(files, file),
                                 Line(DisplayPath(video_path),
                                      format_timestamp(FrameTime(s)),
                                      format_timestamp(FrameTime(e)), T)))
        /\ Cardinality({i \in 1 .. Len(h) : h[i] = T}) = 1

\* C23: on a loaded video with fps > 0, a start marked at frame s, a move
\* to a frame e >= s and a save of the non-empty text T append one line
\* with the labels format_timestamp(s/fps) and format_timestamp(e/fps) and
\* the text T, and leave T exactly once in the history; on 100 frames at
\* 25 fps with s = 0, e = 50 and T = "note" the line reads 00:00:00.000,
\* 00:00:02.000, note and the history is ["note"].
C23_EndToEnd ==
    /\ is_loaded(Player) /\ fps > 0 /\ Strip(annotation_entry) # <<>> =>
           \A s \in 0 .. current_frame :
               start_timestamp = FrameTime(s) =>
                   SavesNote(s, current_frame, Strip(annotation_entry))
    /\ /\ is_loaded(Player) /\ total_frames = 100 /\ fps = 250
       /\ start_timestamp = FrameTime(0) /\ current_frame = 50
       /\ Strip(annotation_entry) = <<"n", "o", "t", "e">>
       /\ annotation_history = <<>>
       => LET a == mark_end_and_save(App, WriteOk)
              c == a.files[a.saved.file]
          IN  /\ c[Len(c)].start = [hours |-> 0, minutes |-> 0, millis |-> 0]
              /\ c[Len(c)].end = [hours |-> 0, minutes |-> 0,
                                  millis |-> 2000]
              /\ c[Len(c)].text = <<"n", "o", "t", "e">>
              /\ a.mgr.annotation_history = << <<"n", "o", "t", "e">> >>

\* The example has run: start marked at frame 0, the save made at frame 50
\* of the 100 frames, the line written and "note" alone in the history.
C23_Witness ==
    /\ saved.op = "mark_end_and_save" /\ saved.ok
    /\ total_frames = 100 /\ fps = 250 /\ current_frame = 50
    /\ start_timestamp = FrameTime(0)
    /\ files[saved.file] =
           << Line(<<"note", ".mp4">>,
                   [hours |-> 0, minutes |-> 0, millis |-> 0],
                   [hours |-> 0, minutes |-> 0, millis |-> 2000],
                   <<"n", "o", "t", "e">>) >>
    /\ annotation_history = << <<"n", "o", "t", "e">> >>

\* The path is the directory or lies below it: the directory's components
\* begin the path's.
LiesUnder(path, dir) == IsPrefix(Components(dir), Components(path))

\* C24: the display path that save_annotation writes is the video's path
\* relative to the home directory exactly when the video's absolute path is
\* the home directory or a descendant of it, and the absolute path
\* otherwise.
C24_RelativeIffUnderHome ==
    saved.op \in {"save_annotation", "mark_end_and_save"} /\ saved.ok =>
        LET c == files[saved.file]
            abs_video_path == PathTokens(saved.video_path)
        IN  c[Len(c)].path =
                IF LiesUnder(abs_video_path, home_dir)
                THEN Relpath(abs_video_path, home_dir)
                ELSE abs_video_path

\* hours, minutes and thousandths of seconds are the fields of the value t
\* as the claim computes them: hours and minutes truncated from the total
\* seconds and never wrapped, the seconds field the remainder below 60 to
\* the nearest thousandth (either one when it is halfway).
IsLabelOf(l, t) ==
    LET whole == t.n \div t.d
        thousandths == (t.n % t.d) * 1000
        q == (whole % 60) * 1000 + thousandths \div t.d
        r == thousandths % t.d
    IN  /\ l.hours = whole \div 3600
        /\ l.minutes = (whole % 3600) \div 60
        /\ \/ l.millis = q /\ 2 * r <= t.d
           \/ l.millis = q + 1 /\ 2 * r >= t.d

\* C25: for every non-negative seconds value format_timestamp returns
\* HH:MM:SS.mmm with hours and minutes truncated from the total seconds,
\* hours not wrapped at 24 and the seconds field the remainder below 60
\* rounded to 3 decimals; format_timestamp(0) is 00:00:00.000 and
\* format_timestamp(3661.5) is 01:01:01.500.
C25_FieldsOfTheSeconds ==
    /\ saved.op = "format_timestamp" => IsLabelOf(saved.start, start_timestamp)
    /\ format_timestamp(Seconds(0, 1)) =
           [hours |-> 0, minutes |-> 0, millis |-> 0]
    /\ format_timestamp(Seconds(7323, 2)) =
           [hours |-> 1, minutes |-> 1, millis |-> 1500]

\* C26: get_frame reads on without a seek exactly when current_frame =
\* last_read_position + 1, as in the first get_frame after a load; in
\* every other case (a step back, the same frame again, a jump of 2 or
\* more) it first seeks the decoder to current_frame.
C26_SequentialTest ==
    [][GetFrameStep =>
        /\ last'.path = "sequential" <=>
               current_frame = last_read_position + 1
        /\ last'.path = "sequential" => last'.seeks = 0 /\ last'.reads = 1
        /\ last'.path # "sequential" =>
               /\ last'.path = "seek" /\ last'.seeks >= 1
               /\ video_capture.kind = "opened" /\ last'.decoded
                  /\ ~last'.recovery =>
                      /\ last'.frame = Image(video_capture.video,
                                             current_frame)
                      /\ video_capture'.pos = current_frame + 1
        /\ last.op = "load_video" /\ last.ok =>
               last'.path = "sequential"]_vars

\* Frame 1 was not the frame after the last decode and was read after one
\* seek to it.
C26_Witness ==
    /\ GotFrame /\ last.path = "seek" /\ last.seeks = 1 /\ last.decoded
    /\ current_frame = 1 /\ video_capture.pos = 2
    /\ last.frame = Image(video_path, 1)

\* The reads of the recovery run that decoded, in a get_frame call that
\* went through the recovery at a frame k frames after the run's start.
RunDecoded(k) == IF last.decoded THEN k + 1 ELSE last.reads - 2

\* C27 as stated: the recovery seeks back k = min(current_frame, 30) frames,
\* makes at most k + 1 reads, and returns the last frame that the run
\* decoded.
C27_Original ==
    GotFrame /\ last.recovery /\ video_capture.kind = "opened" =>
        LET k == Min(current_frame, 30)
        IN  /\ last.reads <= k + 2
            /\ RunDecoded(k) >= 1 =>
                   /\ last.decoded
                   /\ last.frame = Image(video_capture.video,
                                         current_frame - k + RunDecoded(k) - 1)

\* C27, amended: the recovery seeks back k = min(current_frame, 30) frames
\* and reads forward, at most k + 1 reads; it returns the frame at
\* current_frame when all k + 1 reads decode, and no frame as soon as one
\* read of the run fails, whatever the run decoded before (get_frame then
\* falls back on its cache).
C27_RecoveryRun ==
    GotFrame /\ last.recovery /\ video_capture.kind = "opened" =>
        LET k == Min(current_frame, 30)
        IN  /\ k > 0 /\ last.seeks = 2
            /\ last.reads \in 2 .. (k + 2)
            /\ last.decoded =>
                   /\ last.reads = k + 2
                   /\ last.frame = Image(video_capture.video, current_frame)
                   /\ video_capture.pos = current_frame + 1
            /\ ~last.decoded =>
                   /\ video_capture.pos = current_frame - k + last.reads - 2
                   /\ last.ok => last.used_cache
                   /\ last.frame \in {NoFrame, last_valid_frame}

\* At frame 50 the direct read failed and the run from frame 20 decoded
\* its 31 frames.
C27_Witness ==
    /\ GotFrame /\ last.recovery /\ last.decoded
    /\ current_frame = 50 /\ last.reads = 32
    /\ last.frame = Image(video_path, 50)

\* C28: whenever get_frame returns a frame with used_cache = FALSE, the
\* frame is the video's frame at index current_frame; and whenever
\* get_frame reads sequentially, the decoder's read position is
\* current_frame, also after failed decodes, failed recoveries and
\* cache-served calls, which move the decoder and leave last_read_position
\* as it was.
C28_FreshFrameIsCurrentFrame ==
    /\ [](GotFrame /\ last.ok /\ ~last.used_cache =>
              last.frame = Image(video_path, current_frame))
    /\ [][GetFrameStep /\ last'.path = "sequential"
            /\ video_capture.kind = "opened" =>
              video_capture.pos = current_frame]_vars

\* The playback has stopped at the last frame and no play_video call is
\* scheduled.
StoppedAtEnd ==
    /\ ~is_playing /\ timers = {} /\ playback_id = 0
    /\ current_frame = total_frames - 1

\* C29: once the playback runs and the user does nothing, every play_video
\* call moves current_frame on by exactly one and schedules the next call,
\* until the call at the last frame stops the playback; and the playback
\* does stop by itself, at current_frame = total_frames - 1 with is_playing
\* false and no call scheduled.
C29_PlaysToTheEnd ==
    /\ [][is_playing =>
            IF current_frame < total_frames - 1
            THEN /\ current_frame' = current_frame + 1
                 /\ is_playing' /\ timers' = {playback_id'}
                 /\ playback_id' # 0
            ELSE /\ current_frame' = current_frame
                 /\ StoppedAtEnd']_vars
    /\ (is_playing ~> StoppedAtEnd)

\* A playback of the whole video has ended: the call at the last frame
\* found no next frame.
C29_Witness ==
    /\ StoppedAtEnd /\ total_frames = MaxFrames
    /\ last.op = "next_frame" /\ ~last.ok
    /\ prev_get.at = current_frame /\ prev_get.video = "a.mp4"

\* The label of one of the frames of the video v.
IsFrameLabel(l, v) ==
    \E k \in 0 .. (FrameCount(v) - 1) :
        l = format_timestamp(Seconds(k * 10, Fps10(v)))

\* C30: the start that mark_end_and_save writes was marked on the video
\* that is loaded at the save: a pending start does not survive the load
\* of another video, and no line of a file has the path of one video and
\* a start label that only a frame of another video has.
C30_StartOfTheLoadedVideo ==
    /\ [][video_path' # video_path => start_timestamp' = NoTime]_vars
    /\ [](\A f \in DOMAIN files : \A i \in 1 .. Len(files[f]) :
             files[f][i].complete =>
                 \E v \in TwoFiles :
                     /\ files[f][i].path = DisplayPath(v)
                     /\ IsFrameLabel(files[f][i].start, v))

====
